---- MODULE Spec2Model ----
(***************************************************************************)
(* Model of the optimizer tooling of ereno: the two Optuna entry points    *)
(* (tools/optuna_opt.py, the "standard" walker, and                        *)
(* tools/optuna_opt_aggressive.py, the "aggressive" walker) and the CSV    *)
(* ledger (tools/optimizer_db.py).                                         *)
(*                                                                         *)
(* Conventions.                                                            *)
(*  - Keys and parameter names are strings; '_'.join and str.replace are   *)
(*    computed on their characters.                                        *)
(*  - A JSON value is a record [t, n, m]: t its type, n its number (a bool *)
(*    is 0/1, a real is in millionths, see Unit), m the ordered entries of *)
(*    a mapping (Python dicts keep insertion order).                       *)
(*  - An exception is a result with err = TRUE; the caller decides whether *)
(*    it is caught.                                                        *)
(***************************************************************************)
EXTENDS Integers, Sequences, FiniteSets, TLC

\* ------------------------------------------------------------------ bounds

\* How many values from the low end of a sampling interval the sampler is
\* let to propose (beside the high end).
MaxPick == 1

\* Trials a study runs (--trials).
MaxTrials == 2

\* The seconds the wall clock may advance during a study.
MaxClock == 1

\* The length of the log text the runner may print before its result.
MaxGarbage == 2

\* The rows the ledger processes append, whole or torn.
MaxRows == 2

\* The trials a study's storage holds when a run resumes it.
MaxPrior == 1

\* ------------------------------------------------------------ JSON values

\* Reals are fixed-point: 1.0 is Unit, so that the 1e-6 of the standard
\* walker is exactly 1.
Unit == 1000000

Leaf(t, n) == [t |-> t, n |-> n, m |-> <<>>]
JInt(n) == Leaf("int", n)
JReal(n) == Leaf("real", n)
JBool(b) == Leaf("bool", b)
JStr(n) == Leaf("str", n)
JArr(n) == Leaf("arr", n)
JMap(es) == [t |-> "map", n |-> 0, m |-> es]
Entry(k, v) == [k |-> k, v |-> v]

\* isinstance(v, dict), isinstance(v, bool), isinstance(v, (int, float)),
\* isinstance(v, int): a Python bool is an int.
IsDict(v) == v.t = "map"
IsBool(v) == v.t = "bool"
IsNumber(v) == v.t \in {"int", "real", "bool"}
IsInt(v) == v.t \in {"int", "bool"}

\* float(v) and int(v) of a number, in Unit and in whole numbers.
ToFloat(v) == IF v.t = "real" THEN v.n ELSE v.n * Unit
Trunc(a, b) == IF a >= 0 THEN a \div b ELSE -((-a) \div b)

Max(a, b) == IF a >= b THEN a ELSE b

\* k in d, d[k], d[k] = v  (an existing key keeps its place, a new one is
\* appended).
HasKey(d, k) == \E i \in 1..Len(d.m) : d.m[i].k = k
Get(d, k) == d.m[CHOOSE i \in 1..Len(d.m) : d.m[i].k = k].v
Put(d, k, v) ==
  IF HasKey(d, k)
  THEN [d EXCEPT !.m = [i \in 1..Len(d.m) |->
                          IF d.m[i].k = k THEN Entry(k, v) ELSE d.m[i]]]
  ELSE [d EXCEPT !.m = Append(d.m, Entry(k, v))]

EmptyDict == JMap(<<>>)

\* ---------------------------------------------------------------- strings

\* '_'.join(path)
RECURSIVE Join(_)
Join(path) ==
  IF Len(path) = 0 THEN ""
  ELSE IF Len(path) = 1 THEN path[1]
  ELSE path[1] \o "_" \o Join(Tail(path))

StartsWith(s, p) == Len(s) >= Len(p) /\ SubSeq(s, 1, Len(p)) = p

\* s.replace(old, new): every non-overlapping occurrence, left to right.
RECURSIVE Replace(_, _, _)
Replace(s, old, new) ==
  IF Len(s) = 0 THEN ""
  ELSE IF StartsWith(s, old)
       THEN new \o Replace(SubSeq(s, Len(old) + 1, Len(s)), old, new)
       ELSE SubSeq(s, 1, 1) \o Replace(SubSeq(s, 2, Len(s)), old, new)

\* ---------------------------------------------------------------- sampler

\* The values the sampler is let to propose in [lo, hi]: the first MaxPick
\* from the low end, and the high end.
Pick(lo, hi) ==
  { v \in {lo + i : i \in 0..(MaxPick - 1)} \cup {hi} : lo <= v /\ v <= hi }

\* The state of one walk: trial.params (name, distribution class, value, in
\* the order suggested), the document being built, whether an exception is
\* propagating, the value the last suggest call returned, the (name, path)
\* entries the walk has appended to PARAM_MAP, the assignment enqueued for
\* this trial (fixed_params), and the distributions asked for so far.
WalkStart(doc) ==
  [params |-> <<>>, cfg |-> doc, err |-> FALSE, ret |-> 0, map |-> <<>>,
   fixed |-> <<>>, asked |-> <<>>]

Mapped(name, path) == [name |-> name, path |-> path]

HasParam(params, name) == \E i \in 1..Len(params) : params[i].name = name
ParamOf(params, name) == params[CHOOSE i \in 1..Len(params) : params[i].name = name]

\* The value an enqueued parameter takes under the distribution asked for:
\* [err, n]. A categorical takes choices.index(value), a ValueError when
\* the value equals neither True nor False (1 == True, 0 == False); an int
\* or float distribution converts the number and takes it even out of range.
FixedValue(f, cls) ==
  IF cls = "cat"
  THEN IF f.cls = "float"
       THEN [err |-> f.n \notin {0, Unit}, n |-> IF f.n = Unit THEN 1 ELSE 0]
       ELSE [err |-> f.n \notin {0, 1}, n |-> IF f.n = 1 THEN 1 ELSE 0]
  ELSE IF cls = "int"
       THEN [err |-> FALSE, n |-> IF f.cls = "float" THEN Trunc(f.n, Unit) ELSE f.n]
       ELSE [err |-> FALSE, n |-> IF f.cls = "float" THEN f.n ELSE f.n * Unit]

\* trial.suggest_int / suggest_float / suggest_categorical(name, ...): a name
\* already suggested in this trial returns its first value (a different
\* distribution class is a ValueError); low > high is a ValueError of the
\* distribution's constructor, before the name is looked at; a name of the
\* enqueued assignment takes the enqueued value; otherwise the sampler
\* proposes a value of [lo, hi].
Suggest(st, name, cls, lo, hi) ==
  IF st.err THEN {st}
  ELSE IF lo > hi THEN {[st EXCEPT !.err = TRUE]}
  ELSE LET s1 == [st EXCEPT !.asked = Append(@, [name |-> name, cls |-> cls,
                                                  lo |-> lo, hi |-> hi])]
       IN IF HasParam(s1.params, name)
          THEN IF ParamOf(s1.params, name).cls # cls
               THEN {[s1 EXCEPT !.err = TRUE]}
               ELSE {[s1 EXCEPT !.ret = ParamOf(s1.params, name).n]}
          ELSE IF HasParam(s1.fixed, name)
               THEN LET f == FixedValue(ParamOf(s1.fixed, name), cls)
                    IN IF f.err THEN {[s1 EXCEPT !.err = TRUE]}
                       ELSE {[s1 EXCEPT !.params = Append(@, [name |-> name, cls |-> cls,
                                                               n |-> f.n]),
                                        !.ret = f.n]}
               ELSE {[s1 EXCEPT !.params = Append(@, [name |-> name, cls |-> cls, n |-> v]),
                                !.ret = v] : v \in Pick(lo, hi)}

\* The JSON value a suggested number is written as.
Sampled(cls, v) ==
  IF cls = "int" THEN JInt(v) ELSE IF cls = "float" THEN JReal(v) ELSE JBool(v)

\* A mapping with numeric 'min' and 'max'.
IsPair(node) ==
  /\ IsDict(node)
  /\ HasKey(node, "min") /\ HasKey(node, "max")
  /\ IsNumber(Get(node, "min")) /\ IsNumber(Get(node, "max"))

IsIntPair(node) == IsInt(Get(node, "min")) /\ IsInt(Get(node, "max"))

\* A walker that takes 0 and 1 for counts, not for probabilities.
IsProbabilityInside(node) == 0 < ToFloat(node) /\ ToFloat(node) < Unit

\* 0.0 <= float(node) <= 1.0
IsProbability(node) == 0 <= ToFloat(node) /\ ToFloat(node) <= Unit

Range(cls, lo, hi) == [cls |-> cls, lo |-> lo, hi |-> hi]

\* -------------------------------------------- aggressive walker: set_in_config

RECURSIVE SetInConfig(_, _, _)
SetInConfig(node, path, value) ==
  IF Len(path) = 0 THEN node
  ELSE IF Len(path) = 1 THEN Put(node, path[1], value)
  ELSE LET k == path[1]
           child == IF HasKey(node, k) /\ IsDict(Get(node, k))
                    THEN Get(node, k) ELSE EmptyDict
       IN Put(node, k, SetInConfig(child, Tail(path), value))

\* ----------------------------------------------- aggressive walker: bounds

AggPairMinRange(node) ==
  IF IsIntPair(node)
  THEN Range("int", Max(0, Trunc(Get(node, "min").n, 10)), Get(node, "max").n * 10)
  ELSE Range("float", Max(0, Trunc(ToFloat(Get(node, "min")), 20)),
                      ToFloat(Get(node, "max")) * 20)

AggPairMaxRange(node, v_min) ==
  IF IsIntPair(node)
  THEN Range("int", v_min + 1, Max(v_min + 1, AggPairMinRange(node).hi))
  ELSE Range("float", v_min + (Unit \div 100),
                      Max(v_min + (Unit \div 100), AggPairMinRange(node).hi))

AggLeafRange(node) ==
  IF IsProbability(node) THEN Range("float", 0, Unit)
  ELSE IF IsInt(node)
       THEN Range("int", Max(1, Trunc(node.n, 10)), node.n * 20)
       ELSE Range("float", Max(Unit \div 1000, Trunc(node.n, 20)), node.n * 50)

\* The name of a pair's max parameter.
MaxName(param_min_name) == Replace(param_min_name, "_min", "_max")

\* ------------------------------------------------ aggressive walker: traverse

AggPair(st, prefix, node) ==
  LET name_min == Join(Append(prefix, "min"))
      rmin == AggPairMinRange(node)
  IN UNION { LET rmax == AggPairMaxRange(node, s1.ret)
             IN { IF s2.err THEN s2
                  ELSE [s2 EXCEPT
                          !.map = @ \o <<Mapped(name_min, Append(prefix, "min")),
                                         Mapped(MaxName(name_min), Append(prefix, "max"))>>,
                          !.cfg =
                          SetInConfig(SetInConfig(@, Append(prefix, "min"),
                                                  Sampled(rmin.cls, s1.ret)),
                                      Append(prefix, "max"), Sampled(rmax.cls, s2.ret))]
                  : s2 \in Suggest(s1, MaxName(name_min), rmax.cls, rmax.lo, rmax.hi) }
           : s1 \in Suggest(st, name_min, rmin.cls, rmin.lo, rmin.hi) }

AggLeaf(st, prefix, node) ==
  LET r == IF IsBool(node) THEN Range("cat", 0, 1) ELSE AggLeafRange(node)
  IN { IF s.err THEN s
       ELSE [s EXCEPT !.map = Append(@, Mapped(Join(prefix), prefix)),
                      !.cfg = SetInConfig(@, prefix, Sampled(r.cls, s.ret))]
       : s \in Suggest(st, Join(prefix), r.cls, r.lo, r.hi) }

RECURSIVE AggTraverse(_, _, _)
RECURSIVE AggChildren(_, _, _, _)
AggTraverse(S, prefix, node) ==
  IF IsDict(node)
  THEN IF IsPair(node)
       THEN UNION { AggPair(st, prefix, node) : st \in S }
       ELSE AggChildren(S, prefix, node.m, 1)
  ELSE IF IsNumber(node)
       THEN UNION { AggLeaf(st, prefix, node) : st \in S }
       ELSE S

AggChildren(S, prefix, es, i) ==
  IF i > Len(es) THEN S
  ELSE AggChildren(AggTraverse(S, Append(prefix, es[i].k), es[i].v), prefix, es, i + 1)


\* ------------------------------------------------ standard walker: bounds

\* set_in_patch(patch, path, value): path[0] is the attack key.
SetInPatch(p, path, value) ==
  IF Len(path) = 0
  THEN (IF HasKey(p, "attacksParams") THEN p ELSE Put(p, "attacksParams", EmptyDict))
  ELSE LET cur == IF HasKey(p, "attacksParams") THEN Get(p, "attacksParams") ELSE EmptyDict
           node == IF HasKey(cur, path[1]) THEN Get(cur, path[1]) ELSE EmptyDict
           inner == IF Len(path) = 1 THEN path ELSE Tail(path)
       IN Put(p, "attacksParams", Put(cur, path[1], SetInConfig(node, inner, value)))

StdPairMinRange(node) ==
  IF IsIntPair(node)
  THEN LET low == Max(0, Get(node, "min").n)
           high == Max(low + 1, Get(node, "max").n)
       IN Range("int", low, high - 1)
  ELSE LET low == ToFloat(Get(node, "min"))
           high == ToFloat(Get(node, "max"))
       IN Range("float", low, Max(low + 1, high))

StdPairMaxRange(node, v_min) ==
  IF IsIntPair(node)
  THEN Range("int", v_min + 1, Max(v_min + 1, Get(node, "max").n))
  ELSE Range("float", Max(v_min + 1, ToFloat(Get(node, "min"))), ToFloat(Get(node, "max")))

StdLeafRange(node) ==
  IF IsProbability(node) THEN Range("float", 0, Unit)
  ELSE IF IsInt(node)
       THEN LET low == Max(0, node.n \div 2)
            IN Range("int", low, Max(low + 1, node.n * 3 + 1))
       ELSE LET low == Max(0, node.n \div 2)
            IN Range("float", low, Max(low + 1, node.n * 3))

\* ---------------------------------------------- standard walker: traverse

StdPair(st, attack_key, prefix, node) ==
  LET path == <<attack_key>> \o prefix
      name_min == Join(Append(path, "min"))
      rmin == StdPairMinRange(node)
  IN UNION { LET rmax == StdPairMaxRange(node, s1.ret)
             IN { IF s2.err THEN s2
                  ELSE [s2 EXCEPT
                          !.map = @ \o <<Mapped(name_min, Append(path, "min")),
                                         Mapped(MaxName(name_min), Append(path, "max"))>>,
                          !.cfg =
                          SetInPatch(SetInPatch(@, Append(path, "min"),
                                                Sampled(rmin.cls, s1.ret)),
                                     Append(path, "max"), Sampled(rmax.cls, s2.ret))]
                  : s2 \in Suggest(s1, MaxName(name_min), rmax.cls, rmax.lo, rmax.hi) }
           : s1 \in Suggest(st, name_min, rmin.cls, rmin.lo, rmin.hi) }

StdLeaf(st, attack_key, prefix, node) ==
  LET path == <<attack_key>> \o prefix
      r == IF IsBool(node) THEN Range("cat", 0, 1) ELSE StdLeafRange(node)
  IN { IF s.err THEN s
       ELSE [s EXCEPT !.map = Append(@, Mapped(Join(path), path)),
                      !.cfg = SetInPatch(@, path, Sampled(r.cls, s.ret))]
       : s \in Suggest(st, Join(path), r.cls, r.lo, r.hi) }

RECURSIVE StdTraverse(_, _, _, _)
RECURSIVE StdChildren(_, _, _, _, _)
StdTraverse(S, attack_key, prefix, node) ==
  IF IsDict(node)
  THEN IF IsPair(node)
       THEN UNION { StdPair(st, attack_key, prefix, node) : st \in S }
       ELSE StdChildren(S, attack_key, prefix, node.m, 1)
  ELSE IF IsNumber(node)
       THEN UNION { StdLeaf(st, attack_key, prefix, node) : st \in S }
       ELSE S

StdChildren(S, attack_key, prefix, es, i) ==
  IF i > Len(es) THEN S
  ELSE StdChildren(StdTraverse(S, attack_key, Append(prefix, es[i].k), es[i].v),
                   attack_key, prefix, es, i + 1)


\* ------------------------------------------------- runner output, json.loads

(* The text the runner prints is a sequence of lexemes:
     "{" "}" ":" ","   the JSON punctuation
     " "               whitespace (a blank or a line break)
     "g"               a character that starts no JSON value (log text)
     "K"               the string "metric_f1"
     "S"               a string of plain text, e.g. "n/a"
     "T"               a string holding a number, "0.5"
     "P"               a string with one unescaped backslash, "C:\path"
     "Pe"              the same with the backslash doubled, "C:\\path"
     "0.42" "0.9"      numbers
     "null"
   No lexeme but "{" and "}" holds a brace, and none but " " a blank: a
   prefix of the text that ends inside a lexeme ends an unfinished string,
   number or literal, so it parses exactly when it would with that lexeme
   cut off whole, which is never (an object ends with its closing brace). *)
StringLexemes == {"K", "S", "T", "Pe"}
NumberLexemes == {"0.42", "0.9"}

\* The value of a number lexeme and of float() of a string, in Unit.
NumberValue(tok) ==
  IF tok = "0.42" THEN 42 * (Unit \div 100)
  ELSE IF tok = "0.9" THEN 90 * (Unit \div 100)
  ELSE 50 * (Unit \div 100)

JNull == Leaf("null", 0)
JText(tok) == [t |-> "str", n |-> 0, m |-> <<tok>>]

RECURSIVE SkipWs(_, _)
SkipWs(s, i) == IF i <= Len(s) /\ s[i] = " " THEN SkipWs(s, i + 1) ELSE i

ParseFail == [ok |-> FALSE, pos |-> 0, val |-> JNull]
ParseOk(pos, val) == [ok |-> TRUE, pos |-> pos, val |-> val]

\* json's scanner: the value starting at s[i].
RECURSIVE ParseValue(_, _)
RECURSIVE ParseMembers(_, _, _)
ParseValue(s, i) ==
  IF i > Len(s) THEN ParseFail
  ELSE IF s[i] \in NumberLexemes THEN ParseOk(i + 1, JReal(NumberValue(s[i])))
  ELSE IF s[i] \in StringLexemes THEN ParseOk(i + 1, JText(s[i]))
  ELSE IF s[i] = "null" THEN ParseOk(i + 1, JNull)
  ELSE IF s[i] = "{"
       THEN LET j == SkipWs(s, i + 1)
            IN IF j <= Len(s) /\ s[j] = "}" THEN ParseOk(j + 1, EmptyDict)
               ELSE ParseMembers(s, j, EmptyDict)
  ELSE ParseFail

\* The members of an object from s[i] (a key is expected) to its closing
\* brace; a repeated key keeps its last value.
ParseMembers(s, i, acc) ==
  IF i > Len(s) \/ s[i] \notin StringLexemes THEN ParseFail
  ELSE LET c == SkipWs(s, i + 1)
       IN IF c > Len(s) \/ s[c] # ":" THEN ParseFail
          ELSE LET v == ParseValue(s, SkipWs(s, c + 1))
                   e == SkipWs(s, v.pos)
               IN IF ~v.ok \/ e > Len(s) THEN ParseFail
                  ELSE IF s[e] = "}" THEN ParseOk(e + 1, Put(acc, s[i], v.val))
                  ELSE IF s[e] = "," THEN ParseMembers(s, SkipWs(s, e + 1), Put(acc, s[i], v.val))
                  ELSE ParseFail

\* json.loads(s): one value, blanks around it, nothing else.
Loads(s) ==
  LET v == ParseValue(s, SkipWs(s, 1))
  IN IF v.ok /\ SkipWs(s, v.pos) > Len(s) THEN v ELSE ParseFail

\* text.replace('\\', '\\\\')
Sanitize(s) == [i \in 1..Len(s) |-> IF s[i] = "P" THEN "Pe" ELSE s[i]]

\* out.find('{'): the index of the first brace, 0 for none.
Find(s, tok) ==
  IF \E i \in 1..Len(s) : s[i] = tok
  THEN CHOOSE i \in 1..Len(s) : s[i] = tok /\ \A j \in 1..(i - 1) : s[j] # tok
  ELSE 0

\* text.strip() of a text that starts with a brace.
RECURSIVE Strip(_)
Strip(s) == IF Len(s) > 0 /\ s[Len(s)] = " " THEN Strip(SubSeq(s, 1, Len(s) - 1)) ELSE s

\* The loads of each entry point: the aggressive one sanitizes first.
LoadsOf(variant, s) == IF variant = "aggressive" THEN Loads(Sanitize(s)) ELSE Loads(s)

\* A run_experiment that gives up when the whole text does not parse.
TrimParseWhole(variant, jtxt, i) == LoadsOf(variant, SubSeq(jtxt, 1, i))

\* for i in range(len(jtxt), 0, -1): the first prefix that parses.
RECURSIVE TrimParse(_, _, _)
TrimParse(variant, jtxt, i) ==
  IF i = 0 THEN ParseFail
  ELSE LET r == LoadsOf(variant, SubSeq(jtxt, 1, i))
       IN IF r.ok THEN r ELSE TrimParse(variant, jtxt, i - 1)

\* What the runner did: launched or not, its exit code, what it printed.
Outcome(launched, exit, out) == [launched |-> launched, exit |-> exit, out |-> out]

\* A run_experiment that answers an output without an object with the empty
\* object.
RunExperimentLenient(variant, o) == [raised |-> FALSE, res |-> EmptyDict]

\* run_experiment: [raised, res]. subprocess.run raises when the executable
\* is missing; the exit code of the process is not read.
RunExperiment(variant, o) ==
  IF ~o.launched THEN [raised |-> TRUE, res |-> JNull]
  ELSE LET jstart == Find(o.out, "{")
           jtxt == Strip(SubSeq(o.out, jstart, Len(o.out)))
           r == TrimParse(variant, jtxt, Len(jtxt))
       IN IF jstart = 0 \/ ~r.ok THEN [raised |-> TRUE, res |-> JNull]
          ELSE [raised |-> FALSE, res |-> r.val]

\* float(res.get('metric_f1', 1.0)): [raised, v].
Metric(res) ==
  LET x == IF HasKey(res, "K") THEN Get(res, "K") ELSE JReal(Unit)
  IN IF x.t = "real" THEN [raised |-> FALSE, v |-> x.n]
     ELSE IF x.t = "str" /\ x.m = <<"T">> THEN [raised |-> FALSE, v |-> NumberValue("T")]
     ELSE [raised |-> TRUE, v |-> 0]

\* The out-of-band penalty, 2.0.
Penalty == 2 * Unit


\* ------------------------------------------------------------ write_config

\* merge(d, u) of write_config: [err, val]. Assigning into, or calling .get
\* on, a d that is no mapping is a TypeError / AttributeError.
RECURSIVE Merge(_, _)
RECURSIVE MergeFrom(_, _, _)
Merge(d, u) == MergeFrom(d, u.m, 1)

MergeFrom(d, es, i) ==
  IF i > Len(es) THEN [err |-> FALSE, val |-> d]
  ELSE IF ~IsDict(d) THEN [err |-> TRUE, val |-> d]
  ELSE IF IsDict(es[i].v)
       THEN LET r == Merge(IF HasKey(d, es[i].k) THEN Get(d, es[i].k) ELSE EmptyDict,
                           es[i].v)
            IN IF r.err THEN [err |-> TRUE, val |-> d]
               ELSE MergeFrom(Put(d, es[i].k, r.val), es, i + 1)
       ELSE MergeFrom(Put(d, es[i].k, es[i].v), es, i + 1)

\* ------------------------------------------------------- reverse path map

\* build_param_map / build_param_map_for_attack: name -> path, as a mapping
\* in insertion order; a name assigned twice keeps its last path.
RECURSIVE BuildParamMap(_, _, _)
RECURSIVE BuildParamMapChildren(_, _, _, _)
BuildParamMap(out, path, node) ==
  IF IsDict(node)
  THEN IF IsPair(node)
       THEN LET param_min == Join(Append(path, "min"))
            IN Put(Put(out, param_min, Append(path, "min")),
                   MaxName(param_min), Append(path, "max"))
       ELSE BuildParamMapChildren(out, path, node.m, 1)
  ELSE IF IsNumber(node) THEN Put(out, Join(path), path)
  ELSE out

BuildParamMapChildren(out, path, es, i) ==
  IF i > Len(es) THEN out
  ELSE BuildParamMapChildren(BuildParamMap(out, Append(path, es[i].k), es[i].v),
                             path, es, i + 1)

\* The attack key given on the command line (--attack).
kAtk == "randomReplay"

ParamMapOf(variant, attack_cfg) ==
  IF variant = "standard" THEN BuildParamMap(EmptyDict, <<kAtk>>, attack_cfg)
  ELSE BuildParamMap(EmptyDict, <<>>, attack_cfg)

\* study.best_params[pname], pname in study.best_params
ParamValue(params, name) == Sampled(ParamOf(params, name).cls, ParamOf(params, name).n)

\* main, aggressive: node = best_attack_config; for k in path[:-1]: a missing
\* key gets {}; node[path[-1]] = value. [err, val]: assigning into a node
\* that is no mapping is a TypeError.
RECURSIVE SetBestAgg(_, _, _)
SetBestAgg(node, path, value) ==
  IF ~IsDict(node) THEN [err |-> TRUE, val |-> node]
  ELSE IF Len(path) = 1 THEN [err |-> FALSE, val |-> Put(node, path[1], value)]
  ELSE LET r == SetBestAgg(IF HasKey(node, path[1]) THEN Get(node, path[1]) ELSE EmptyDict,
                           Tail(path), value)
       IN IF r.err THEN [err |-> TRUE, val |-> node]
          ELSE [err |-> FALSE, val |-> Put(node, path[1], r.val)]

\* main, standard: cur = best_patch['attacksParams'].setdefault(path[0], {});
\* for k in path[1:-1]: cur = cur.setdefault(k, {}); cur[path[-1]] = value.
SetBestStd(best_patch, path, value) ==
  LET ap == Get(best_patch, "attacksParams")
      cur == IF HasKey(ap, path[1]) THEN Get(ap, path[1]) ELSE EmptyDict
      r == SetBestAgg(cur, IF Len(path) = 1 THEN path ELSE Tail(path), value)
  IN [err |-> r.err, val |-> Put(best_patch, "attacksParams", Put(ap, path[1], r.val))]

SetBest(variant, node, path, value) ==
  IF variant = "standard" THEN SetBestStd(node, path, value) ELSE SetBestAgg(node, path, value)

\* for pname, path in param_map.items(): if pname in study.best_params: ...
RECURSIVE ApplyBest(_, _, _, _, _)
ApplyBest(variant, node, pm, params, i) ==
  IF i > Len(pm.m) THEN [err |-> FALSE, val |-> node]
  ELSE IF ~HasParam(params, pm.m[i].k) THEN ApplyBest(variant, node, pm, params, i + 1)
  ELSE LET r == SetBest(variant, node, pm.m[i].v, ParamValue(params, pm.m[i].k))
       IN IF r.err THEN r ELSE ApplyBest(variant, r.val, pm, params, i + 1)


\* ============================================================== the state

VARIABLES
  variant,    \* which entry point runs: "standard" or "aggressive"
  baseFile,   \* config/configparams.json on disk (BASE_CONFIG)
  loaded,     \* the baseline document as it was loaded at start-up
  heap,       \* the objects in memory: baseline (BASE_CFG_JSON, resp.
              \* ATTACK_CONFIG_JSON), trial (patch, resp. optimized_attack),
              \* best (best_patch, resp. best_attack_config)
  runner,     \* the external runner: "stub" (a few behaviours) or "any"
  n_trials,   \* --trials
  pc,         \* "optimize", "done", "crashed" (an exception left main)
  last,       \* the trial run last
  best,       \* study.best_trial
  trials,     \* the finished trials, in order: value, and whether a metric
  dirs,       \* the per-trial directories, in order of creation
  clock,      \* int(time.time())
  bestCfg,    \* the best-configuration document main writes
  prior,      \* the trials the study's storage held before this run
  queue,      \* the assignment enqueued for the next trial (warm start)
  runs,       \* the runner invocations so far: trial number and seed argument
  ledger,     \* target/tracking/optimizer_results.csv
  lpc,        \* ledger processes: where each one is
  appended,   \* ledger processes: the rows save_result has written
  scan,       \* ledger processes: the result of the last read
  wres        \* walker: the result of the last walk or patch

vars == <<variant, baseFile, loaded, heap, runner, n_trials, pc, last, best, trials,
          dirs, clock, bestCfg, prior, queue, runs, ledger, lpc, appended, scan, wres>>

studyVars == <<variant, baseFile, loaded, heap, runner, n_trials, pc, last, best,
               trials, dirs, clock, bestCfg, prior, queue, runs>>
ledgerVars == <<ledger, lpc, appended, scan>>

\* ------------------------------------------------------------ the ledger

\* A field of a row as csv.DictReader gives it: "ok" with its value, "bad"
\* for text that is no number / no JSON / no key, "none" for a column the
\* line does not have (DictReader's None).
Cell(st, v) == [st |-> st, v |-> v]

\* The columns: optimizer_id, timestamp, attack_key, attack_combination,
\* optimizer_type, num_trials, best_metric_f1, best_parameters_json,
\* config_base_path, notes.
NumColumns == 10
ColKey == 3
ColCombo == 4
ColTrials == 6
ColF1 == 7
ColParams == 8

Header == [kind |-> "header", ncols |-> NumColumns, key |-> Cell("ok", "attack_key"),
           combo |-> Cell("ok", <<"attack_combination">>), sampler |-> "optimizer_type",
           trials |-> Cell("bad", 0), f1 |-> Cell("bad", 0), params |-> Cell("bad", <<>>),
           ts |-> 0]

\* The row save_result writes: the score as '%.6f', the assignment as JSON;
\* combo is attack_combination as split(',') gives it.
Row(key, combo, sampler, num_trials, best_f1, best_params, now) ==
  [kind |-> "row", ncols |-> NumColumns, key |-> Cell("ok", key), combo |-> Cell("ok", combo),
   sampler |-> sampler, trials |-> Cell("ok", num_trials), f1 |-> Cell("ok", best_f1),
   params |-> Cell("ok", best_params), ts |-> now]

NoRow == [kind |-> "none", ncols |-> 0, key |-> Cell("none", ""), combo |-> Cell("none", <<>>),
          sampler |-> "", trials |-> Cell("none", 0), f1 |-> Cell("none", 0),
          params |-> Cell("none", <<>>), ts |-> 0]

NoLedger == [exists |-> FALSE, rows |-> <<>>]

\* _write_headers: open(db_path, 'w') empties the file, then the header.
WriteHeaders(l) == [exists |-> TRUE, rows |-> <<Header>>]

\* _ensure_initialized, when nothing runs beside it.
EnsureInitialized(l) == IF l.exists THEN l ELSE WriteHeaders(l)

\* A save that writes the file anew, with the header and its row.
SaveResultRewriting(l, row) == [exists |-> TRUE, rows |-> <<Header, row>>]

\* save_result: open(db_path, 'a') creates the file when it is missing.
SaveResult(l, row) == [exists |-> TRUE, rows |-> Append(l.rows, row)]

\* A write of a row that stops inside the line: the line has the first n
\* columns, the n-th whole or cut short.
CutCell(cell, col, n, whole) ==
  IF col > n THEN Cell("none", cell.v)
  ELSE IF col = n /\ ~whole THEN Cell("bad", cell.v)
  ELSE cell

Cut(row, n, whole) ==
  [row EXCEPT !.kind = "torn", !.ncols = n,
              !.key = CutCell(@, ColKey, n, whole),
              !.combo = CutCell(@, ColCombo, n, whole),
              !.trials = CutCell(@, ColTrials, n, whole),
              !.f1 = CutCell(@, ColF1, n, whole),
              !.params = CutCell(@, ColParams, n, whole)]

\* sorted() of attack keys, by their place in the lexicographic order.
KeyOrder == <<"", "k1", "k2", "randomReplay">>
Rank(k) == CHOOSE i \in 1..Len(KeyOrder) : KeyOrder[i] = k

RECURSIVE Insert(_, _)
Insert(sorted, k) ==
  IF Len(sorted) = 0 THEN <<k>>
  ELSE IF Rank(k) < Rank(sorted[1]) THEN <<k>> \o sorted
  ELSE <<sorted[1]>> \o Insert(Tail(sorted), k)

RECURSIVE Sorted(_)
Sorted(ks) == IF Len(ks) = 0 THEN <<>> ELSE Insert(Sorted(SubSeq(ks, 1, Len(ks) - 1)), ks[Len(ks)])

\* ",".join(ks)
RECURSIVE JoinComma(_)
JoinComma(ks) ==
  IF Len(ks) = 0 THEN ""
  ELSE IF Len(ks) = 1 THEN ks[1]
  ELSE ks[1] \o "," \o JoinComma(Tail(ks))

\* What a scan has so far: raised once a row made it raise.
ScanStart == [raised |-> FALSE, best |-> NoRow, all |-> <<>>]

\* The body of both best-of loops once the row matches: float() of the
\* score; when the row beats the best so far, int() of the trial count and
\* json.loads of the assignment unless that field is empty or missing.
TakeIfBetter(acc, row) ==
  IF row.f1.st # "ok" THEN [acc EXCEPT !.raised = TRUE]
  ELSE IF acc.best.kind = "none" \/ row.f1.v < acc.best.f1.v
       THEN IF row.trials.st # "ok" \/ row.params.st = "bad"
            THEN [acc EXCEPT !.raised = TRUE]
            ELSE [acc EXCEPT !.best = row]
       ELSE acc

\* get_best_for_attack: the rows after the header line, in file order.
RECURSIVE BestForAttackFrom(_, _, _, _)
BestForAttackFrom(acc, rows, i, attack_key) ==
  IF i > Len(rows) \/ acc.raised THEN acc
  ELSE BestForAttackFrom(
         IF rows[i].key.st = "ok" /\ rows[i].key.v = attack_key
         THEN TakeIfBetter(acc, rows[i]) ELSE acc,
         rows, i + 1, attack_key)

GetBestForAttack(l, attack_key) ==
  IF ~l.exists THEN ScanStart ELSE BestForAttackFrom(ScanStart, l.rows, 2, attack_key)

\* get_best_for_combination: row['attack_combination'].split(',') of a
\* missing column is an AttributeError.
RECURSIVE BestForCombinationFrom(_, _, _, _)
BestForCombinationFrom(acc, rows, i, combination_key) ==
  IF i > Len(rows) \/ acc.raised THEN acc
  ELSE BestForCombinationFrom(
         IF rows[i].combo.st = "none" THEN [acc EXCEPT !.raised = TRUE]
         ELSE IF rows[i].combo.st = "ok"
                 /\ JoinComma(Sorted(rows[i].combo.v)) = combination_key
              THEN TakeIfBetter(acc, rows[i])
              ELSE acc,
         rows, i + 1, combination_key)

GetBestForCombination(l, attack_keys) ==
  IF ~l.exists THEN ScanStart
  ELSE BestForCombinationFrom(ScanStart, l.rows, 2, JoinComma(Sorted(attack_keys)))

\* get_all_results: int(), float() and json.loads of every row.
RECURSIVE AllResultsFrom(_, _, _)
AllResultsFrom(acc, rows, i) ==
  IF i > Len(rows) \/ acc.raised THEN acc
  ELSE AllResultsFrom(
         IF rows[i].trials.st # "ok" \/ rows[i].f1.st # "ok" \/ rows[i].params.st = "bad"
         THEN [acc EXCEPT !.raised = TRUE]
         ELSE [acc EXCEPT !.all = Append(@, rows[i])],
         rows, i + 1)

GetAllResults(l) == IF ~l.exists THEN ScanStart ELSE AllResultsFrom(ScanStart, l.rows, 2)

\* ------------------------------------------------------------- the study

NoTrial == [number |-> -1, params |-> <<>>, fixed |-> <<>>, cfg |-> JNull, seed |-> 0,
            outcome |-> Outcome(FALSE, 0, <<>>), status |-> "none", score |-> 0,
            result |-> [params |-> <<>>, res |-> JNull]]
NoBest == [number |-> -1, params |-> <<>>, score |-> 0]

\* A study that starts empty although the storage holds trials.
OpenStudyNew(stored) == <<>>

\* optuna.create_study(study_name, storage, load_if_exists=True): the study
\* of that name with the trials the storage holds.
OpenStudy(stored) == stored

\* config/configparams.json for an attack configuration.
BaseConfig(attack_cfg) ==
  JMap(<<Entry("attacksParams", JMap(<<Entry(kAtk, attack_cfg)>>)),
         Entry("gooseFlow", JMap(<<Entry("numberOfMessages", JInt(1000))>>))>>)

GetOr(d, k, default) == IF IsDict(d) /\ HasKey(d, k) THEN Get(d, k) ELSE default

\* attack_cfg of objective.
AttackCfg(v, baseline) ==
  IF v = "standard"
  THEN GetOr(GetOr(baseline, "attacksParams", EmptyDict), kAtk, EmptyDict)
  ELSE baseline

\* The object objective builds: patch, resp. optimized_attack.
NewTrialObject(v) ==
  IF v = "standard"
  THEN JMap(<<Entry("attacksParams", EmptyDict),
              Entry("gooseFlow", JMap(<<Entry("numberOfMessages", JInt(2000))>>))>>)
  ELSE EmptyDict

\* A walk that writes into the baseline itself.
TrialTargetAliased == "baseline"

\* The object the walk of a trial writes into.
TrialTarget == "trial"

\* traverse([], attack_cfg): every way the walk can go.
WalksFrom(v, st, attack_cfg) ==
  IF v = "standard" THEN StdTraverse({st}, kAtk, <<>>, attack_cfg)
  ELSE AggTraverse({st}, <<>>, attack_cfg)

Walks(v, start, attack_cfg) == WalksFrom(v, WalkStart(start), attack_cfg)

\* The rest of the aggressive objective's config: attackType and enabled.
WithTypeAndEnabled(optimized_attack, attack_cfg) ==
  LET a == IF HasKey(attack_cfg, "attackType")
           THEN Put(optimized_attack, "attackType", Get(attack_cfg, "attackType"))
           ELSE optimized_attack
  IN IF HasKey(a, "enabled") THEN a ELSE Put(a, "enabled", JBool(1))

\* The trial object once the walk is over and the seed is known.
FinishTrialObject(v, obj, attack_cfg, seed) ==
  IF v = "standard" THEN Put(obj, "randomSeed", JInt(seed))
  ELSE WithTypeAndEnabled(obj, attack_cfg)

\* cfg.json: [err, val]. full_config['gooseFlow'] of a file without it is
\* a KeyError.
Materialize(v, obj, file, seed) ==
  IF v = "standard" THEN Merge(file, obj)
  ELSE IF \/ ~HasKey(file, "gooseFlow") \/ ~IsDict(Get(file, "gooseFlow"))
          \/ (HasKey(file, "attacksParams") /\ ~IsDict(Get(file, "attacksParams")))
       THEN [err |-> TRUE, val |-> file]
       ELSE LET ap == IF HasKey(file, "attacksParams") THEN Get(file, "attacksParams")
                      ELSE EmptyDict
                f1 == Put(file, "attacksParams", Put(ap, kAtk, obj))
                f2 == Put(f1, "gooseFlow",
                          Put(Get(f1, "gooseFlow"), "numberOfMessages", JInt(5000)))
            IN [err |-> FALSE, val |-> Put(f2, "randomSeed", JInt(seed))]

\* A study that keeps the trial of the highest value.
BestAfterHighest(b, number, params, v) ==
  IF b.number < 0 \/ v > b.score
  THEN [number |-> number, params |-> params, score |-> v] ELSE b

\* study.best_trial after a trial of value v: the first of the lowest.
BestAfter(b, number, params, v) ==
  IF b.number < 0 \/ v < b.score
  THEN [number |-> number, params |-> params, score |-> v] ELSE b

NoDir == [exists |-> FALSE, files |-> {}]


\* ------------------------------------------------------------- the inputs

\* What the runner may print: log text, then possibly an object, then
\* possibly more text.
RECURSIVE SeqsUpTo(_, _)
SeqsUpTo(S, n) ==
  IF n = 0 THEN {<<>>}
  ELSE LET shorter == SeqsUpTo(S, n - 1)
       IN shorter \cup {Append(q, x) : q \in shorter, x \in S}

Pres == SeqsUpTo({"g", "{", " "}, MaxGarbage)

Obj1(k, v) == <<"{", k, ":", " ", v, "}">>

Bodies == { <<>>, Obj1("K", "0.42"), Obj1("K", "0.9"), Obj1("K", "S"), Obj1("K", "T"),
            Obj1("K", "P"), Obj1("K", "null"), Obj1("S", "0.42"), <<"{", "}">>,
            <<"{", "K", ":", "{", "}", "}">>,
            <<"{", "S", ":", "0.9", ",", " ", "K", ":", "0.42", "}">>,
            <<"{", "K", ":", "0.42">> }

Posts == { <<>>, <<" ", "g">>, <<"}">>, <<" ">> \o Obj1("K", "0.9") }

ExitCodes == {0, 1}

StubOutcomes ==
  { Outcome(TRUE, 0, Obj1("K", "0.42")), Outcome(TRUE, 0, Obj1("K", "0.9")),
    Outcome(TRUE, 1, <<"g">>) }

AnyOutcomes ==
  {Outcome(FALSE, 0, <<>>)} \cup
  { Outcome(TRUE, e, pre \o body \o post) :
      e \in ExitCodes, pre \in Pres, body \in Bodies, post \in Posts }

Outcomes(r) == IF r = "any" THEN AnyOutcomes ELSE StubOutcomes

\* Attack configurations a study is run on.
PairInt(lo, hi) == JMap(<<Entry("min", JInt(lo)), Entry("max", JInt(hi))>>)
PairReal(lo, hi) == JMap(<<Entry("min", JReal(lo)), Entry("max", JReal(hi))>>)

StudyBaselines ==
  { JMap(<<Entry("a", PairInt(1, 3))>>),
    JMap(<<Entry("a", PairReal(Unit, 9 * Unit))>>),
    JMap(<<Entry("attackType", JStr(1)), Entry("enabled", JBool(0)),
           Entry("b", JReal(Unit \div 2)), Entry("a", JArr(1))>>),
    JMap(<<Entry("attackType", JStr(1)), Entry("b", JMap(<<Entry("a", JInt(7))>>))>>) }

\* An attack configuration with nothing to tune.
RunnerBaselines == { JMap(<<Entry("attackType", JStr(1))>>) }

\* The wall clock when a trial materializes its config: it never goes back.
Now == {t \in {clock, clock + 1} : t <= MaxClock}

\* A runner seeded with the clock second alone.
RunnerCallsClockSeed(number, seed, status) ==
  <<[number |-> number, seed |-> seed - number]>>

\* The runner invocations of one trial: run_experiment(cfg_path, tmpdir,
\* seed=...) is called once, whatever comes of it.
RunnerCalls(number, seed, status) == <<[number |-> number, seed |-> seed]>>

\* How a trial ends: "raised" (an exception leaves objective), "penalty"
\* (run_experiment raised and was caught), or "metric".
TrialStatus(w, m, r, metric) ==
  IF w.err \/ m.err THEN "raised"
  ELSE IF r.raised THEN "penalty"
  ELSE IF metric.raised THEN "raised"
  ELSE "metric"

\* An objective without the rmtree of the penalty path.
TrialDirKept(status, m) ==
  IF status = "metric" THEN [exists |-> TRUE, files |-> {"cfg.json", "result.json"}]
  ELSE [exists |-> TRUE, files |-> IF m.err THEN {} ELSE {"cfg.json"}]

\* The trial's directory when objective is left: removed on the penalty
\* path, kept with cfg.json and result.json when a metric is returned, kept
\* with what was written so far when an exception leaves objective.
TrialDir(status, m) ==
  IF status = "metric" THEN [exists |-> TRUE, files |-> {"cfg.json", "result.json"}]
  ELSE IF status = "penalty" THEN NoDir
  ELSE [exists |-> TRUE, files |-> IF m.err THEN {} ELSE {"cfg.json"}]

\* objective(trial): one whole trial. The walk samples the assignment into a
\* new object, the config is written to cfg.json in a new directory, the
\* runner is invoked once, and its output is reduced to the trial's value.
\* An exception that leaves objective leaves study.optimize and main.
Objective ==
  /\ pc = "optimize"
  /\ Len(trials) < Len(OpenStudy(prior)) + n_trials
  /\ LET number == Len(trials)
         heap1 == [heap EXCEPT !.trial = NewTrialObject(variant)]
         attack_cfg == AttackCfg(variant, heap1.baseline)
         \* the trial study.optimize asks for first is the one enqueued
         start == [WalkStart(heap1[TrialTarget]) EXCEPT !.fixed = queue]
     IN \E w \in WalksFrom(variant, start, attack_cfg) :
          \E o \in Outcomes(runner), now \in Now :
            LET seed == number + now
                obj == FinishTrialObject(variant, w.cfg, attack_cfg, seed)
                m == Materialize(variant, obj, baseFile, seed)
                r == RunExperiment(variant, o)
                metric == Metric(r.res)
                status == TrialStatus(w, m, r, metric)
                value == IF status = "penalty" THEN Penalty ELSE metric.v
                \* tempfile.mkdtemp comes after the walk, and in the
                \* aggressive objective after the config is put together
                made == ~w.err /\ (variant = "standard" \/ ~m.err)
            IN /\ heap' = [heap1 EXCEPT ![TrialTarget] = IF w.err THEN w.cfg ELSE obj]
               /\ clock' = IF w.err THEN clock ELSE now
               /\ dirs' = IF made THEN Append(dirs, TrialDir(status, m)) ELSE dirs
               /\ last' = [number |-> number, params |-> w.params, fixed |-> queue,
                           cfg |-> IF w.err \/ m.err THEN JNull ELSE m.val,
                           seed |-> IF w.err THEN 0 ELSE seed,
                           outcome |-> IF w.err \/ m.err THEN NoTrial.outcome ELSE o,
                           status |-> status,
                           score |-> IF status = "raised" THEN 0 ELSE value,
                           result |-> IF status = "metric"
                                      THEN [params |-> w.params, res |-> r.res]
                                      ELSE NoTrial.result]
               /\ trials' = IF status = "raised" THEN trials
                            ELSE Append(trials, [value |-> value, ok |-> status = "metric"])
               /\ best' = IF status = "raised" THEN best
                          ELSE BestAfter(best, number, w.params, value)
               /\ pc' = IF status = "raised" THEN "crashed" ELSE "optimize"
               /\ runs' = IF w.err THEN runs
                          ELSE IF m.err THEN runs
                          ELSE runs \o RunnerCalls(number, seed, status)
  /\ queue' = <<>>
  /\ UNCHANGED <<variant, baseFile, loaded, runner, n_trials, bestCfg, prior, wres>>
  /\ UNCHANGED ledgerVars

\* The object main patches with the best assignment: best_patch, resp. a
\* deep copy of the attack configuration.
NewBestObject(v, baseline) ==
  IF v = "standard" THEN JMap(<<Entry("attacksParams", EmptyDict)>>) ELSE baseline

\* The object main's patch loop writes into.
FinalTarget == "best"

\* --sampler (the default).
SamplerName == "optuna_cmaes"

\* main after study.optimize: the best assignment goes back through the
\* reverse path map into a document, which is written out; the aggressive
\* entry point then appends the study's record to the ledger.
Finalize ==
  /\ pc = "optimize"
  /\ Len(trials) = Len(OpenStudy(prior)) + n_trials
  /\ LET heap1 == [heap EXCEPT !.best = NewBestObject(variant, heap.baseline)]
         pm == ParamMapOf(variant, AttackCfg(variant, heap1.baseline))
         r == ApplyBest(variant, heap1[FinalTarget], pm, best.params, 1)
         out == IF r.err THEN r
                ELSE IF variant = "standard" THEN Merge(baseFile, r.val) ELSE r
     IN /\ heap' = [heap1 EXCEPT ![FinalTarget] = r.val]
        /\ bestCfg' = IF out.err THEN bestCfg ELSE out.val
        /\ pc' = IF out.err THEN "crashed" ELSE "done"
        /\ ledger' = IF out.err \/ variant = "standard" THEN ledger
                     ELSE SaveResult(ledger, Row(kAtk, <<"">>, SamplerName, Len(trials),
                                                 best.score, best.params, clock))
  /\ UNCHANGED <<variant, baseFile, loaded, runner, n_trials, last, best, trials, dirs,
                 clock, prior, queue, runs, lpc, appended, scan, wres>>


\* ------------------------------------------------------ the specifications

Procs == 1..2

NoScan == [op |-> "none", arg |-> <<>>, res |-> ScanStart]
NoWalk == [kind |-> "none", params |-> <<>>, cfg |-> JNull, err |-> FALSE, map |-> <<>>,
           asked |-> <<>>]

LedgerIdle ==
  /\ lpc = [p \in Procs |-> "off"]
  /\ appended = {}
  /\ scan = NoScan

StudyInit(Bs, R, Ns) ==
  /\ variant \in {"standard", "aggressive"}
  /\ \E b \in Bs :
       /\ baseFile = BaseConfig(b)
       /\ loaded = IF variant = "standard" THEN BaseConfig(b) ELSE b
  /\ heap = [baseline |-> loaded, trial |-> JNull, best |-> JNull]
  /\ runner = R
  /\ n_trials \in Ns
  /\ pc = "optimize"
  /\ last = NoTrial
  /\ best = NoBest
  /\ trials = <<>>
  /\ dirs = <<>>
  /\ clock = 0
  /\ bestCfg = JNull
  /\ prior = <<>>
  /\ queue = <<>>
  /\ runs = <<>>
  /\ ledger = IF variant = "standard" THEN NoLedger ELSE EnsureInitialized(NoLedger)
  /\ LedgerIdle
  /\ wres = NoWalk

\* A study on one of the attack configurations, with a stub runner.
Init == StudyInit(StudyBaselines, "stub", 1..MaxTrials)

Next == Objective \/ Finalize

Spec == Init /\ [][Next]_vars

\* One trial against a runner that may do anything.
InitRunner == StudyInit(RunnerBaselines, "any", {1})

SpecRunner == InitRunner /\ [][Next]_vars


\* ------------------------------------------------------- a resumed study

\* An attack configuration with one tunable leaf, a boolean.
ResumeBaseline == JMap(<<Entry("attackType", JStr(1)), Entry("on", JBool(1))>>)

\* The trials an earlier run left in the storage: a metric, or the penalty.
PriorTrials == {[value |-> Unit \div 4, ok |-> TRUE], [value |-> Penalty, ok |-> FALSE]}

\* The directories the earlier run left for them.
PriorDirs(h) ==
  [i \in 1..Len(h) |-> TrialDir(IF h[i].ok THEN "metric" ELSE "penalty", [err |-> FALSE])]

\* The assignment of the earlier run's trials.
PriorParams(v, attack_cfg) ==
  (CHOOSE w \in Walks(v, NewTrialObject(v), attack_cfg) : ~w.err).params

\* study.best_trial of the trials h[i..]: the first of the lowest.
RECURSIVE BestOf(_, _, _, _)
BestOf(b, h, i, params) ==
  IF i > Len(h) THEN b ELSE BestOf(BestAfter(b, i - 1, params, h[i].value), h, i + 1, params)

\* The best assignments an earlier run may have saved for the attack: that
\* of the present schema, one of a schema with one more parameter, one of a
\* schema where the leaf was a number, and none.
StoredAssignments ==
  { <<>>,
    <<[name |-> "on", cls |-> "cat", n |-> 0]>>,
    <<[name |-> "b", cls |-> "int", n |-> 3], [name |-> "on", cls |-> "cat", n |-> 0]>>,
    <<[name |-> "on", cls |-> "int", n |-> 5]>> }

\* The ledger an earlier run may have left: none, the header, a row whose
\* write stopped after the trial count, or a whole row.
PriorLedgers ==
  {NoLedger, WriteHeaders(NoLedger),
   SaveResult(WriteHeaders(NoLedger),
              Cut(Row(kAtk, <<"">>, SamplerName, 1, Unit \div 4, <<>>, 0), ColTrials, TRUE))} \cup
  { SaveResult(WriteHeaders(NoLedger), Row(k, <<"">>, SamplerName, 1, Unit \div 4, a, 0))
    : k \in {kAtk, "k1"}, a \in StoredAssignments }

\* study.enqueue_trial(params) inside try/except: the assignment waits for
\* the next trial, or nothing does when the call raised.
EnqueueTrial(params, raises) == IF raises THEN <<>> ELSE params

\* main up to study.optimize. The aggressive entry point opens the ledger,
\* looks up the best record of the attack and enqueues its assignment; both
\* open the study with the trials the storage holds.
Start ==
  /\ pc = "start"
  /\ LET l == IF variant = "standard" THEN ledger ELSE EnsureInitialized(ledger)
         previous_best == IF variant = "standard" THEN ScanStart
                          ELSE GetBestForAttack(l, kAtk)
         found == previous_best.best.kind # "none" /\ previous_best.best.params.v # <<>>
     IN /\ ledger' = l
        /\ pc' = IF previous_best.raised THEN "crashed" ELSE "optimize"
        /\ trials' = IF previous_best.raised THEN trials ELSE OpenStudy(prior)
        /\ best' = IF previous_best.raised THEN best
                   ELSE BestOf(NoBest, OpenStudy(prior), 1,
                               PriorParams(variant, AttackCfg(variant, heap.baseline)))
        /\ \E raises \in BOOLEAN :
             queue' = IF previous_best.raised THEN <<>>
                      ELSE IF found THEN EnqueueTrial(previous_best.best.params.v, raises)
                      ELSE <<>>
  /\ UNCHANGED <<variant, baseFile, loaded, heap, runner, n_trials, last, dirs, clock,
                 bestCfg, prior, runs, lpc, appended, scan, wres>>

InitResume ==
  /\ variant \in {"standard", "aggressive"}
  /\ baseFile = BaseConfig(ResumeBaseline)
  /\ loaded = IF variant = "standard" THEN baseFile ELSE ResumeBaseline
  /\ heap = [baseline |-> loaded, trial |-> JNull, best |-> JNull]
  /\ runner = "stub"
  /\ n_trials \in 1..MaxTrials
  /\ pc = "start"
  /\ last = NoTrial
  /\ best = NoBest
  /\ trials = <<>>
  /\ prior \in SeqsUpTo(PriorTrials, MaxPrior)
  /\ dirs = PriorDirs(prior)
  /\ clock = 0
  /\ bestCfg = JNull
  /\ queue = <<>>
  /\ runs = <<>>
  /\ ledger \in IF variant = "standard" THEN {NoLedger} ELSE PriorLedgers
  /\ LedgerIdle
  /\ wres = NoWalk

NextResume == Start \/ Objective \/ Finalize

SpecResume == InitResume /\ [][NextResume]_vars


\* ------------------------------------------------- the walker on its own

\* Attack configurations for the walker: one or two entries, the keys among
\* those whose joined names can meet, the values among leaves of every type,
\* paired ranges and nested mappings.
WalkKeys == {"a", "a_b", "a_max", "min", "max"}

WalkValues ==
  { JInt(0), JInt(5), JReal(Unit \div 2), JReal(5 * (Unit \div 2)), JBool(1), JStr(1),
    JArr(1), PairInt(1, 3), PairInt(0, 0), PairReal(Unit, 9 * Unit),
    JMap(<<Entry("b", JInt(5))>>), JMap(<<Entry("min", JInt(2))>>) }

WalkPairs ==
  { JMap(<<Entry(k1, v1), Entry(k2, v2)>>) :
      k1 \in WalkKeys, k2 \in WalkKeys, v1 \in WalkValues, v2 \in WalkValues }

WalkBaselines ==
  { JMap(<<Entry(k, v)>>) : k \in WalkKeys, v \in WalkValues } \cup
  { d \in WalkPairs : d.m[1].k # d.m[2].k }

\* doc[path[0]][path[1]]..., null where there is no such path.
RECURSIVE GetPath(_, _)
GetPath(doc, path) ==
  IF Len(path) = 0 THEN doc
  ELSE IF IsDict(doc) /\ HasKey(doc, path[1]) THEN GetPath(Get(doc, path[1]), Tail(path))
  ELSE JNull

\* One walk of the baseline, as objective does it for a trial.
Walk ==
  /\ pc = "walk"
  /\ \E w \in Walks(variant, NewTrialObject(variant), AttackCfg(variant, heap.baseline)) :
       wres' = [kind |-> "walk", params |-> w.params, cfg |-> w.cfg, err |-> w.err,
                map |-> w.map, asked |-> w.asked]
  /\ UNCHANGED studyVars
  /\ UNCHANGED ledgerVars

\* main's patch of the baseline with the assignment of the last walk,
\* through the reverse path map; the result is the document written.
Patch ==
  /\ pc = "walk"
  /\ wres.kind = "walk" /\ ~wres.err
  /\ LET pm == ParamMapOf(variant, AttackCfg(variant, heap.baseline))
         r == ApplyBest(variant, NewBestObject(variant, heap.baseline), pm, wres.params, 1)
         out == IF r.err THEN r
                ELSE IF variant = "standard" THEN Merge(baseFile, r.val) ELSE r
     IN wres' = [wres EXCEPT !.kind = "patch", !.err = out.err,
                             !.cfg = out.val]
  /\ UNCHANGED studyVars
  /\ UNCHANGED ledgerVars

InitWalk ==
  /\ variant \in {"standard", "aggressive"}
  /\ \E b \in WalkBaselines :
       /\ baseFile = BaseConfig(b)
       /\ loaded = IF variant = "standard" THEN BaseConfig(b) ELSE b
  /\ heap = [baseline |-> loaded, trial |-> JNull, best |-> JNull]
  /\ runner = "stub"
  /\ n_trials = 0
  /\ pc = "walk"
  /\ last = NoTrial
  /\ best = NoBest
  /\ trials = <<>>
  /\ dirs = <<>>
  /\ clock = 0
  /\ bestCfg = JNull
  /\ prior = <<>>
  /\ queue = <<>>
  /\ runs = <<>>
  /\ ledger = NoLedger
  /\ LedgerIdle
  /\ wres = NoWalk

NextWalk == Walk \/ Patch

SpecWalk == InitWalk /\ [][NextWalk]_vars


\* ----------------------------------------------------- the merge on its own

\* merge(d, u) of reproduce_trial.py: the recursion is entered only where
\* both sides hold a mapping; anything else of the patch is assigned.
RECURSIVE ReproMerge(_, _)
RECURSIVE ReproMergeFrom(_, _, _)
ReproMerge(d, u) == ReproMergeFrom(d, u.m, 1)

ReproMergeFrom(d, es, i) ==
  IF i > Len(es) THEN d
  ELSE IF IsDict(es[i].v) /\ HasKey(d, es[i].k) /\ IsDict(Get(d, es[i].k))
       THEN ReproMergeFrom(Put(d, es[i].k, ReproMerge(Get(d, es[i].k), es[i].v)), es, i + 1)
       ELSE ReproMergeFrom(Put(d, es[i].k, es[i].v), es, i + 1)

\* Base configurations and patches: no, one or two keys, holding a number,
\* a string, an array, or a mapping that is empty, flat or nested.
MergeValues ==
  { JInt(5), JStr(1), JArr(1), EmptyDict, JMap(<<Entry("c", JInt(1))>>),
    JMap(<<Entry("c", JMap(<<Entry("d", JInt(2))>>))>>) }

MergeDocs ==
  {EmptyDict} \cup { JMap(<<Entry(k, v)>>) : k \in {"a", "b"}, v \in MergeValues }
  \cup { JMap(<<Entry("a", v1), Entry("b", v2)>>) : v1 \in MergeValues, v2 \in MergeValues }

\* write_config(base_cfg_path, out_path, patch): the base file is loaded,
\* the patch merged into what was loaded, the result written to out_path.
WriteConfig ==
  /\ pc = "merge"
  /\ LET r == Merge(baseFile, heap.trial)
     IN wres' = [NoWalk EXCEPT !.kind = "write_config", !.err = r.err,
                               !.cfg = IF r.err THEN JNull ELSE r.val]
  /\ UNCHANGED studyVars
  /\ UNCHANGED ledgerVars

\* reproduce_trial.py: the base file is loaded, the patch merged into it,
\* the result written.
ReproduceTrial ==
  /\ pc = "merge"
  /\ wres' = [NoWalk EXCEPT !.kind = "reproduce", !.cfg = ReproMerge(baseFile, heap.trial)]
  /\ UNCHANGED studyVars
  /\ UNCHANGED ledgerVars

InitMerge ==
  /\ variant = "standard"
  /\ baseFile \in MergeDocs
  /\ loaded = baseFile
  /\ \E patch \in MergeDocs : heap = [baseline |-> loaded, trial |-> patch, best |-> JNull]
  /\ runner = "stub"
  /\ n_trials = 0
  /\ pc = "merge"
  /\ last = NoTrial
  /\ best = NoBest
  /\ trials = <<>>
  /\ dirs = <<>>
  /\ clock = 0
  /\ bestCfg = JNull
  /\ prior = <<>>
  /\ queue = <<>>
  /\ runs = <<>>
  /\ ledger = NoLedger
  /\ LedgerIdle
  /\ wres = NoWalk

NextMerge == WriteConfig \/ ReproduceTrial

SpecMerge == InitMerge /\ [][NextMerge]_vars


\* ------------------------------------------------- the ledger on its own

\* What the processes save: (attack_key, attack_combination, score).
LedgerKeys == {"k1", "k2"}

SaveInputs ==
  { [key |-> "k1", combo |-> <<"">>, f1 |-> Unit \div 4],
    [key |-> "k1", combo |-> <<"">>, f1 |-> Unit \div 2],
    [key |-> "k2", combo |-> <<"">>, f1 |-> Unit \div 4],
    [key |-> "", combo |-> <<"k2", "k1">>, f1 |-> Unit \div 2] }

\* Where a write can stop: inside or right after one of these columns.
CutColumns == {2, ColKey, ColCombo, ColTrials, ColF1, ColParams}

RowOf(in) == Row(in.key, in.combo, SamplerName, 1, in.f1, <<>>, Cardinality(appended) + 1)

Torn(l) == l.exists /\ Len(l.rows) > 0 /\ l.rows[Len(l.rows)].kind = "torn"

\* _ensure_initialized, first half: mkdir, db_path.exists().
LedgerExists(p) ==
  /\ lpc[p] = "new"
  /\ lpc' = [lpc EXCEPT ![p] = IF ledger.exists THEN "ready" ELSE "missing"]
  /\ UNCHANGED <<ledger, appended, scan>>
  /\ UNCHANGED <<studyVars, wres>>

\* _ensure_initialized, second half: _write_headers, on what exists() said.
LedgerWriteHeaders(p) ==
  /\ lpc[p] = "missing"
  /\ ledger' = WriteHeaders(ledger)
  /\ lpc' = [lpc EXCEPT ![p] = "ready"]
  /\ scan' = NoScan
  /\ UNCHANGED appended
  /\ UNCHANGED <<studyVars, wres>>

\* save_result. A line appended after a torn one would continue it; the
\* ledger is followed up to its first torn line.
LedgerSave(p) ==
  /\ lpc[p] = "ready"
  /\ ~Torn(ledger)
  /\ Cardinality(appended) < MaxRows
  /\ \E in \in SaveInputs :
       /\ ledger' = SaveResult(ledger, RowOf(in))
       /\ appended' = appended \cup {RowOf(in)}
  /\ scan' = NoScan
  /\ UNCHANGED lpc
  /\ UNCHANGED <<studyVars, wres>>

\* save_result interrupted inside writerow: the process is gone, the line
\* stays as far as it was written.
LedgerTornSave(p) ==
  /\ lpc[p] = "ready"
  /\ ~Torn(ledger)
  /\ Cardinality(appended) < MaxRows
  /\ \E in \in SaveInputs, n \in CutColumns, whole \in BOOLEAN :
       ledger' = SaveResult(ledger, Cut(RowOf(in), n, whole))
  /\ lpc' = [lpc EXCEPT ![p] = "gone"]
  /\ scan' = NoScan
  /\ UNCHANGED appended
  /\ UNCHANGED <<studyVars, wres>>

LedgerBestForAttack(p) ==
  /\ lpc[p] = "ready"
  /\ \E k \in LedgerKeys :
       scan' = [op |-> "attack", arg |-> <<k>>, res |-> GetBestForAttack(ledger, k)]
  /\ UNCHANGED <<ledger, lpc, appended>>
  /\ UNCHANGED <<studyVars, wres>>

LedgerBestForCombination(p) ==
  /\ lpc[p] = "ready"
  /\ \E ks \in {<<"k1", "k2">>, <<"k1">>, <<>>} :
       scan' = [op |-> "combination", arg |-> ks, res |-> GetBestForCombination(ledger, ks)]
  /\ UNCHANGED <<ledger, lpc, appended>>
  /\ UNCHANGED <<studyVars, wres>>

LedgerAllResults(p) ==
  /\ lpc[p] = "ready"
  /\ scan' = [op |-> "all", arg |-> <<>>, res |-> GetAllResults(ledger)]
  /\ UNCHANGED <<ledger, lpc, appended>>
  /\ UNCHANGED <<studyVars, wres>>

InitLedger ==
  /\ variant = "aggressive"
  /\ baseFile = BaseConfig(EmptyDict)
  /\ loaded = EmptyDict
  /\ heap = [baseline |-> loaded, trial |-> JNull, best |-> JNull]
  /\ runner = "stub"
  /\ n_trials = 0
  /\ pc = "ledger"
  /\ last = NoTrial
  /\ best = NoBest
  /\ trials = <<>>
  /\ dirs = <<>>
  /\ clock = 0
  /\ bestCfg = JNull
  /\ prior = <<>>
  /\ queue = <<>>
  /\ runs = <<>>
  /\ wres = NoWalk
  /\ ledger = NoLedger
  /\ lpc = [p \in Procs |-> "new"]
  /\ appended = {}
  /\ scan = NoScan

NextLedger ==
  \E p \in Procs :
    \/ LedgerExists(p)
    \/ LedgerWriteHeaders(p)
    \/ LedgerSave(p)
    \/ LedgerTornSave(p)
    \/ LedgerBestForAttack(p)
    \/ LedgerBestForCombination(p)
    \/ LedgerAllResults(p)

SpecLedger == InitLedger /\ [][NextLedger]_vars


\* ================================================================ claims

\* Outputs of the runner that are log text holding an opening brace,
\* followed by an object carrying the metric.
BraceGarbageThen(n) ==
  { pre \o Obj1("K", n) : pre \in {q \in Pres : Find(q, "{") > 0} }

\* C1: whenever the runner exits with a non-zero code, the trial's value is
\* the penalty 2.0, whatever the runner printed.
C1_NonZeroExitIsPenalty ==
  (last.status # "none" /\ last.outcome.launched /\ last.outcome.exit # 0)
    => (last.status = "penalty" /\ last.score = Penalty)

\* C2: when the output is log text that holds opening braces followed by a
\* valid object with the metric field, the trial's value is that metric.
C2_RecoversObjectAfterBraceGarbage ==
  \A n \in NumberLexemes :
    (last.status # "none" /\ last.outcome.launched
       /\ last.outcome.out \in BraceGarbageThen(n))
      => (last.status = "metric" /\ last.score = NumberValue(n))

\* C3: objective never raises: every trial ends with a number, the metric
\* or the penalty, and the study goes on.
C3_ObjectiveNeverRaises ==
  last.status \in {"none", "metric", "penalty"} /\ pc # "crashed"

PristineConfigs(params, seed) ==
  { Materialize(variant,
                FinishTrialObject(variant, w.cfg, AttackCfg(variant, loaded), seed),
                baseFile, seed).val
    : w \in { x \in Walks(variant, NewTrialObject(variant), AttackCfg(variant, loaded))
              : ~x.err /\ x.params = params } }

\* C8: the baseline in memory stays equal to what was loaded, through every
\* trial and through main's write of the best configuration, and the config
\* of each trial is the loaded baseline patched with that trial's own
\* assignment only.
C8_BaselineNeverMutated ==
  /\ heap.baseline = loaded
  /\ last.status \in {"metric", "penalty"} =>
       last.cfg \in PristineConfigs(last.params, last.seed)

\* C8's case: two trials have patched and main has written the best
\* configuration, which differs from the baseline.
C8_Witness ==
  /\ pc = "done" /\ Len(trials) >= 2
  /\ heap.trial # JNull /\ heap.best # JNull
  /\ bestCfg # baseFile /\ bestCfg # loaded
  /\ last.params # <<>> /\ last.params # best.params

\* The paths of the paired min/max nodes of a document.
RECURSIVE PairPaths(_, _)
PairPaths(path, node) ==
  IF ~IsDict(node) THEN {}
  ELSE IF IsPair(node) THEN {path}
  ELSE UNION { PairPaths(Append(path, node.m[i].k), node.m[i].v) : i \in 1..Len(node.m) }

\* The tunable paths of a document: both ends of every pair, every other
\* numeric or boolean leaf.
RECURSIVE TunablePaths(_, _)
TunablePaths(path, node) ==
  IF IsDict(node)
  THEN IF IsPair(node) THEN {Append(path, "min"), Append(path, "max")}
       ELSE UNION { TunablePaths(Append(path, node.m[i].k), node.m[i].v)
                    : i \in 1..Len(node.m) }
  ELSE IF IsNumber(node) THEN {path}
  ELSE {}

\* Paths start at the attack key in the standard tool, at the root of the
\* attack configuration in the aggressive one.
PathRoot == IF variant = "standard" THEN <<kAtk>> ELSE <<>>

\* The value a written document holds at a path of the walker.
AtPath(doc, path) ==
  IF variant = "standard" THEN GetPath(doc, <<"attacksParams">> \o path)
  ELSE GetPath(doc, path)

\* C5: in every assignment the walker produces, the value written at the
\* min end of every paired node is strictly less than the value written at
\* its max end.
C5_PairMinBelowMax ==
  (wres.kind = "walk" /\ ~wres.err) =>
    \A p \in PairPaths(PathRoot, AttackCfg(variant, heap.baseline)) :
      ToFloat(AtPath(wres.cfg, Append(p, "min"))) < ToFloat(AtPath(wres.cfg, Append(p, "max")))

\* C6: parameter names and tunable paths are in bijection: two entries the
\* walker records have the same name exactly when they have the same path,
\* and the reverse map gives each name the path the walker used it for.
C6_NamesAndPathsBijective ==
  (wres.kind = "walk" /\ ~wres.err) =>
    /\ \A i, j \in 1..Len(wres.map) :
         (wres.map[i].name = wres.map[j].name) <=> (wres.map[i].path = wres.map[j].path)
    /\ \A i \in 1..Len(wres.map) :
         LET pm == ParamMapOf(variant, AttackCfg(variant, heap.baseline))
         IN HasKey(pm, wres.map[i].name) /\ Get(pm, wres.map[i].name) = wres.map[i].path

\* C7: once the baseline is patched with an assignment through the reverse
\* map, the patched document has the tunable paths of the baseline and
\* holds at each of them the value assigned to the path's parameter.
C7_PatchRoundTrips ==
  (wres.kind = "patch" /\ ~wres.err) =>
    /\ TunablePaths(PathRoot, AttackCfg(variant, wres.cfg))
         = TunablePaths(PathRoot, AttackCfg(variant, heap.baseline))
    /\ \A i \in 1..Len(wres.map) :
         AtPath(wres.cfg, wres.map[i].path) = ParamValue(wres.params, wres.map[i].name)

\* C9: in every interleaving of the initialize and append steps of the
\* processes, the ledger starts with the header and holds every row that
\* save_result has appended.
C9_InitializeNeverTruncates ==
  ledger.exists =>
    /\ ledger.rows[1] = Header
    /\ \A r \in appended : \E i \in 1..Len(ledger.rows) : ledger.rows[i] = r

\* The rows of the ledger all of whose fields are there and can be read.
WellFormed(row) ==
  /\ row.ncols = NumColumns
  /\ row.kind \in {"header", "row"}
  /\ row.kind = "row" =>
       /\ row.key.st = "ok" /\ row.combo.st = "ok"
       /\ row.trials.st = "ok" /\ row.f1.st = "ok" /\ row.params.st = "ok"

WithoutMalformed(l) == [l EXCEPT !.rows = SelectSeq(@, WellFormed)]

\* C10: a scan of a ledger that holds a malformed row does not raise and
\* gives what the same scan gives on the ledger without that row.
C10_ScanSkipsMalformedRows ==
  /\ scan.op = "attack" =>
       scan.res = GetBestForAttack(WithoutMalformed(ledger), scan.arg[1])
  /\ scan.op = "combination" =>
       scan.res = GetBestForCombination(WithoutMalformed(ledger), scan.arg)
  /\ scan.op = "all" => scan.res = GetAllResults(WithoutMalformed(ledger))

\* C11: a study opened again after N prior trials holds those N trials, in
\* their order, before every trial of this run, and when the run has done
\* its M trials the study holds exactly N + M, penalties included.
C11_ResumeKeepsHistory ==
  /\ pc \in {"optimize", "done"} =>
       /\ Len(prior) <= Len(trials)
       /\ Len(trials) <= Len(prior) + n_trials
       /\ SubSeq(trials, 1, Len(prior)) = prior
  /\ pc = "done" => Len(trials) = Len(prior) + n_trials

C11_Witness ==
  /\ pc = "done"
  /\ Len(prior) >= 1
  /\ n_trials >= 2
  /\ Len(trials) = Len(prior) + n_trials
  /\ \E i \in Len(prior) + 1..Len(trials) : ~trials[i].ok

\* C12: the first trial of a run that enqueued the stored best assignment
\* of its attack evaluates exactly that assignment, and a run whose stored
\* assignment does not fit the schema goes on without it: no exception
\* leaves that trial.
C12_WarmStartThenAllTrials ==
  (last.number = Len(prior) /\ last.fixed # <<>>) =>
    /\ last.status # "raised"
    /\ last.params = last.fixed

\* The paths of the leaves of a document (a dict without keys counts as one).
RECURSIVE LeafPaths(_, _)
LeafPaths(path, node) ==
  IF IsDict(node) /\ Len(node.m) > 0
  THEN UNION { LeafPaths(Append(path, node.m[i].k), node.m[i].v) : i \in 1..Len(node.m) }
  ELSE {path}

\* A path of the walker as a path of the document written.
FullPath(path) == IF variant = "standard" THEN <<"attacksParams">> \o path ELSE path

\* C13: the best-configuration document has exactly the leaves of the
\* baseline, holds at every tunable leaf the value the assignment gives the
\* parameter of that path, and at every other leaf the baseline's value.
C13_BestConfigInBaselineShape ==
  (wres.kind = "patch" /\ ~wres.err) =>
    LET tunable == { FullPath(p) : p \in TunablePaths(PathRoot, AttackCfg(variant, heap.baseline)) }
    IN /\ LeafPaths(<<>>, wres.cfg) = LeafPaths(<<>>, heap.baseline)
       /\ \A p \in LeafPaths(<<>>, heap.baseline) \ tunable :
            GetPath(wres.cfg, p) = GetPath(heap.baseline, p)
       /\ \A p \in tunable :
            \E i \in 1..Len(wres.map) :
              /\ FullPath(wres.map[i].path) = p
              /\ GetPath(wres.cfg, p) = ParamValue(wres.params, wres.map[i].name)

\* C14: a study run that has finalized, of either entry point, has appended
\* exactly one row to the ledger, and the row carries the attack key, the
\* sampler name, the number of trials of the study and the best score.
C14_OneRecordAtStudyEnd ==
  pc = "done" =>
    /\ ledger.exists
    /\ Len(ledger.rows) = 2
    /\ ledger.rows[2].kind = "row"
    /\ ledger.rows[2].key = Cell("ok", kAtk)
    /\ ledger.rows[2].sampler = SamplerName
    /\ ledger.rows[2].trials = Cell("ok", Len(trials))
    /\ ledger.rows[2].f1 = Cell("ok", best.score)

\* C15: the best score of a study is the lowest value of its completed
\* trials, penalties included, the best assignment is the assignment of the
\* first trial of that value, and the record appended at the end reports
\* both.
C15_BestIsMinimum ==
  /\ (pc \in {"optimize", "done"} /\ Len(trials) > 0) =>
       /\ \A i \in 1..Len(trials) : best.score <= trials[i].value
       /\ best.number \in 0..Len(trials) - 1
       /\ trials[best.number + 1].value = best.score
       /\ \A i \in 1..best.number : trials[i].value > best.score
  /\ (pc = "optimize" /\ last.number >= 0 /\ last.number = best.number) =>
       /\ best.params = last.params
       /\ best.score = last.score
  /\ (pc = "done" /\ variant = "aggressive") =>
       /\ ledger.rows[Len(ledger.rows)].f1 = Cell("ok", best.score)
       /\ ledger.rows[Len(ledger.rows)].params = Cell("ok", best.params)

C15_Witness ==
  /\ pc = "done"
  /\ variant = "aggressive"
  /\ Len(trials) >= 3
  /\ \E i \in 1..Len(trials) : ~trials[i].ok
  /\ \E i \in 1..Len(trials) : trials[i].value > best.score
  /\ best.number >= Len(prior)

\* The rows of the ledger that carry the attack key k.
RowsOfKey(k) == { i \in 2..Len(ledger.rows) : ledger.rows[i].key = Cell("ok", k) }

\* C16: get_best_for_attack(k) returns nothing when no row carries the key
\* k, and otherwise the earliest of the rows of key k with the lowest score.
C16_BestForKeyIsEarliestMinimum ==
  scan.op = "attack" =>
    /\ ~scan.res.raised
    /\ RowsOfKey(scan.arg[1]) = {} => scan.res.best.kind = "none"
    /\ RowsOfKey(scan.arg[1]) # {} =>
         \E i \in RowsOfKey(scan.arg[1]) :
           /\ scan.res.best = ledger.rows[i]
           /\ \A j \in RowsOfKey(scan.arg[1]) :
                /\ ledger.rows[i].f1.v <= ledger.rows[j].f1.v
                /\ j < i => ledger.rows[i].f1.v < ledger.rows[j].f1.v

\* The set of attack keys of a combination (an empty field holds none).
KeySet(ks) == { ks[i] : i \in 1..Len(ks) } \ {""}

\* The rows of the ledger whose combination is the set of keys ks.
RowsOfCombination(ks) ==
  { i \in 2..Len(ledger.rows) :
      ledger.rows[i].combo.st = "ok" /\ KeySet(ledger.rows[i].combo.v) = KeySet(ks) }

\* C17: get_best_for_combination(keys) returns nothing when no row has the
\* set of keys of the query as its combination, and otherwise a row of the
\* lowest score among the rows that have it, in whatever order the keys are
\* listed.
C17_BestForCombinationBySet ==
  scan.op = "combination" =>
    /\ ~scan.res.raised
    /\ RowsOfCombination(scan.arg) = {} => scan.res.best.kind = "none"
    /\ RowsOfCombination(scan.arg) # {} =>
         \E i \in RowsOfCombination(scan.arg) :
           /\ scan.res.best = ledger.rows[i]
           /\ \A j \in RowsOfCombination(scan.arg) :
                ledger.rows[i].f1.v <= ledger.rows[j].f1.v

InUnitInterval(node) ==
  /\ node.t \in {"int", "real"}
  /\ 0 <= (IF node.t = "real" THEN node.n ELSE node.n * Unit)
  /\ (IF node.t = "real" THEN node.n ELSE node.n * Unit) <= Unit

\* The paths of the numeric leaves between 0 and 1 of a document that are
\* not an end of a paired range.
RECURSIVE UnitLeafPaths(_, _)
UnitLeafPaths(path, node) ==
  IF IsDict(node)
  THEN IF IsPair(node) THEN {}
       ELSE UNION { UnitLeafPaths(Append(path, node.m[i].k), node.m[i].v)
                    : i \in 1..Len(node.m) }
  ELSE IF InUnitInterval(node) THEN {path}
  ELSE {}

\* The same with the ends of the paired ranges.
RECURSIVE UnitNumberPaths(_, _)
UnitNumberPaths(path, node) ==
  IF IsDict(node)
  THEN UNION { UnitNumberPaths(Append(path, node.m[i].k), node.m[i].v)
               : i \in 1..Len(node.m) }
  ELSE IF InUnitInterval(node) THEN {path}
  ELSE {}

\* The walk asked for the parameter of the path p as a real in [0, 1], and
\* where no other leaf has the parameter's name the value written at p is
\* in [0, 1].
AskedUnitInterval(p) ==
  \E i \in 1..Len(wres.map) :
    /\ wres.map[i].path = p
    /\ i <= Len(wres.asked)
    /\ wres.asked[i] = [name |-> wres.map[i].name, cls |-> "float", lo |-> 0, hi |-> Unit]
    /\ (\A j \in 1..Len(wres.asked) : j # i => wres.asked[j].name # wres.asked[i].name) =>
         /\ 0 <= ToFloat(AtPath(wres.cfg, p))
         /\ ToFloat(AtPath(wres.cfg, p)) <= Unit

C20_OneParameterPerTunablePath ==
  (wres.kind = "walk" /\ ~wres.err) =>
    LET paths == TunablePaths(PathRoot, AttackCfg(variant, heap.baseline))
        pm == ParamMapOf(variant, AttackCfg(variant, heap.baseline))
    IN /\ Len(wres.params) = Cardinality(paths)
       /\ { wres.map[i].path : i \in 1..Len(wres.map) } = paths
       /\ \A i \in 1..Len(wres.map) :
            /\ wres.map[i].name = Join(wres.map[i].path)
            /\ HasParam(wres.params, wres.map[i].name)
            /\ HasKey(pm, wres.map[i].name)
            /\ Get(pm, wres.map[i].name) = wres.map[i].path

\* C21: every interval a walk asks the sampler for, for a numeric leaf or an
\* end of a paired range, has its low end strictly below its high end.
C21_SamplingNeverVacuous ==
  wres.kind = "walk" =>
    \A i \in 1..Len(wres.asked) :
      wres.asked[i].cls \in {"int", "float"} => wres.asked[i].lo < wres.asked[i].hi

\* No prefix of the runner's output from its first brace on parses as an
\* object (with the entry point's own loads), or the output has no brace.
NothingParses(v, out) ==
  \/ \A i \in 1..Len(out) : out[i] # "{"
  \/ \E b \in 1..Len(out) :
       /\ out[b] = "{"
       /\ \A j \in 1..(b - 1) : out[j] # "{"
       /\ \A e \in b..Len(out) : ~LoadsOf(v, SubSeq(out, b, e)).ok

\* C22: a trial whose runner printed no brace, or nothing that parses from
\* the first brace on, returns the penalty 2.0, which is above every metric
\* in [0, 1].
C22_UnparseableIsPenalty ==
  (last.status # "none" /\ last.outcome.launched /\ NothingParses(variant, last.outcome.out)) =>
    /\ last.status = "penalty"
    /\ last.score = 2 * Unit
    /\ last.score > Unit
    /\ trials = <<[value |-> last.score, ok |-> FALSE]>>

C22_Witness ==
  /\ last.status = "penalty"
  /\ last.outcome.launched
  /\ NothingParses(variant, last.outcome.out)
  /\ \E i \in 1..Len(last.outcome.out) : last.outcome.out[i] = "{"
  /\ \E i \in 1..Len(last.outcome.out) : last.outcome.out[i] = "K"

\* C23: a trial whose runner output gave an object scores the number its
\* metric_f1 field holds, and 1.0 when the object has no such field.
C23_ScoreIsMetricField ==
  (last.status # "none" /\ last.outcome.launched
     /\ ~RunExperiment(variant, last.outcome).raised) =>
    LET res == RunExperiment(variant, last.outcome).res
    IN /\ last.status = "metric"
       /\ HasKey(res, "K") =>
            IF Get(res, "K").t = "str"
            THEN Get(res, "K").m = <<"T">> /\ last.score = NumberValue("T")
            ELSE Get(res, "K").t = "real" /\ last.score = Get(res, "K").n
       /\ ~HasKey(res, "K") => last.score = Unit

\* A document as a function from its keys, mappings inside likewise.
RECURSIVE AsFunction(_)
AsFunction(v) ==
  IF IsDict(v) THEN [k \in { v.m[i].k : i \in 1..Len(v.m) } |-> AsFunction(Get(v, k))]
  ELSE v

\* The deep merge of a patch u onto a mapping d: a key of u that holds a
\* mapping on both sides holds their deep merge, any other key of u holds
\* the value of u, every other key of d keeps its value.
RECURSIVE DeepMerged(_, _)
DeepMerged(d, u) ==
  LET keys == { d.m[i].k : i \in 1..Len(d.m) } \cup { u.m[i].k : i \in 1..Len(u.m) }
  IN [k \in keys |->
        IF HasKey(u, k)
        THEN IF IsDict(Get(u, k)) /\ HasKey(d, k) /\ IsDict(Get(d, k))
             THEN DeepMerged(Get(d, k), Get(u, k))
             ELSE AsFunction(Get(u, k))
        ELSE AsFunction(Get(d, k))]

\* C24: the configuration written is the deep merge of the patch onto the
\* base configuration, and no patch makes the merge fail: a mapping of the
\* patch replaces a value of the base that is no mapping.
C24_MergeIsDeepMerge ==
  wres.kind \in {"write_config", "reproduce"} =>
    /\ ~wres.err
    /\ AsFunction(wres.cfg) = DeepMerged(baseFile, heap.trial)

\* The index of the first brace of an output that has one.
FirstBrace(out) ==
  CHOOSE b \in 1..Len(out) : out[b] = "{" /\ \A j \in 1..(b - 1) : out[j] # "{"

\* The parse of the longest prefix that parses of the output from its first
\* brace on.
LongestParse(v, out) ==
  LET b == FirstBrace(out)
      ends == { e \in b..Len(out) : LoadsOf(v, SubSeq(out, b, e)).ok }
      e == CHOOSE x \in ends : \A y \in ends : y <= x
  IN LoadsOf(v, SubSeq(out, b, e)).val

\* C25: the object a trial gets from the runner's output is the parse of the
\* longest prefix that parses of the text from the first brace on, the whole
\* text when that parses; the failure is reported exactly when no prefix
\* parses.
C25_LongestParsingPrefix ==
  (last.status # "none" /\ last.outcome.launched) =>
    /\ last.status = "penalty" <=> NothingParses(variant, last.outcome.out)
    /\ last.status = "metric" => last.result.res = LongestParse(variant, last.outcome.out)

C25_Witness ==
  /\ last.status = "metric"
  /\ last.outcome.launched
  /\ ~LoadsOf(variant, SubSeq(last.outcome.out, FirstBrace(last.outcome.out),
                              Len(last.outcome.out))).ok
  /\ last.outcome.out[Len(last.outcome.out)] = "}"
  /\ last.result.res = LongestParse(variant, last.outcome.out)
  /\ last.score = 42 * (Unit \div 100)

\* C26: the runner is invoked once for each trial, in the order of the
\* trials, and a trial is invoked only when every trial before it has
\* returned its score; a trial that returned the penalty is not run again,
\* and a run of n trials has made n invocations when it ends.
C26_OneInvocationPerTrial ==
  /\ \A i \in 1..Len(runs) : runs[i].number = Len(prior) + i - 1
  /\ pc = "optimize" => Len(runs) = Len(trials) - Len(prior)
  /\ pc \in {"done", "crashed"} => Len(runs) = n_trials

\* An end of an interval asked of the sampler, in Unit.
AskedEnd(a, end) == IF a.cls = "int" THEN end * Unit ELSE end

\* C27: in the standard tool every paired range of the baseline has its min
\* end sampled in an interval inside [0, base_min] and its max end in an
\* interval that starts at base_max or above.
C27_ConservativePairBounds ==
  (wres.kind = "walk" /\ ~wres.err /\ variant = "standard") =>
    \A p \in PairPaths(PathRoot, AttackCfg(variant, heap.baseline)) :
      \A i \in 1..Len(wres.map) :
        LET a == wres.asked[i]
            base_min == ToFloat(AtPath(heap.baseline, Append(p, "min")))
            base_max == ToFloat(AtPath(heap.baseline, Append(p, "max")))
        IN /\ wres.map[i].path = Append(p, "min") =>
                /\ 0 <= AskedEnd(a, a.lo)
                /\ AskedEnd(a, a.hi) <= base_min
           /\ wres.map[i].path = Append(p, "max") =>
                /\ base_max <= AskedEnd(a, a.lo)
                /\ base_max <= AskedEnd(a, a.hi)

\* The paths of the array and string leaves of a document.
RECURSIVE FixedLeafPaths(_, _)
FixedLeafPaths(path, node) ==
  IF IsDict(node)
  THEN UNION { FixedLeafPaths(Append(path, node.m[i].k), node.m[i].v)
               : i \in 1..Len(node.m) }
  ELSE IF node.t \in {"arr", "str"} THEN {path}
  ELSE {}

\* C28: the configuration written for a trial holds every array leaf and
\* every string leaf of the baseline attack configuration at its path, with
\* the baseline's value.
C28_ArraysAndStringsAtBaseline ==
  (last.status # "none" /\ last.cfg # JNull) =>
    LET attack_cfg == AttackCfg(variant, heap.baseline)
    IN \A p \in FixedLeafPaths(<<>>, attack_cfg) :
         GetPath(last.cfg, <<"attacksParams", kAtk>> \o p) = GetPath(attack_cfg, p)

\* C29: the configuration written for a trial has as its top-level seed the
\* trial number plus the clock second at which it was written, the runner is
\* given that same value as its seed, and the seeds given to the runner over
\* the trials of a study strictly increase.
C29_SeedIsNumberPlusClock ==
  /\ (last.status # "none" /\ last.cfg # JNull) =>
       /\ GetPath(last.cfg, <<"randomSeed">>) = JInt(last.number + clock)
       /\ Len(runs) > 0
       /\ runs[Len(runs)] = [number |-> last.number, seed |-> last.number + clock]
  /\ \A i \in 1..Len(runs) : \A j \in 1..Len(runs) :
       i < j => runs[i].seed < runs[j].seed

\* Two trials written in the same clock second.
C29_Witness ==
  /\ Len(runs) = 2
  /\ last.cfg # JNull
  /\ runs[1].seed - runs[1].number = runs[2].seed - runs[2].number
  /\ runs[2].seed = runs[1].seed + 1

\* C30: in the configuration the aggressive tool writes for a trial the
\* attack's 'enabled' field is true.
C30_AttackEnabledInEveryTrial ==
  (variant = "aggressive" /\ last.status # "none" /\ last.cfg # JNull) =>
    GetPath(last.cfg, <<"attacksParams", kAtk, "enabled">>) = JBool(1)

====
